---------------------------- MODULE Spec2Model ----------------------------
(***************************************************************************)
(* Model of transfer_Li.py: the hexagonal lattice check and the conversion *)
(* of lattice vertices to hexagon centers (check_hex_lattice,              *)
(* hex_verts2faces), the search for the best insertion point and the       *)
(* output written for every transferred lithium ion (__main__).            *)
(*                                                                         *)
(* Lengths are fixed-point integers, one unit being 1e-5 Angstrom, so that *)
(* the tolerance (1e-3), the rounding to `precision` decimals and the      *)
(* force-field distances are all exact integers.  Boxes are orthogonal:    *)
(* apply_PBC wraps every coordinate into [0, box length).                  *)
(***************************************************************************)
EXTENDS Integers, Sequences, FiniteSets, TLC

VARIABLES
    verts,            \* surf.positions: sequence of <<x, y, z>>
    box,              \* surf.dimensions: <<lx, ly, lz>>
    flatside,         \* "x", "y" or anything else
    tol,              \* tolerance handed to hex_verts2faces
    u,                \* the Universe: atom index -> [pos, vel]
    sel,              \* indices of the transferable lithium ions, ascending
    pc,               \* position in __main__
    err,              \* the exception that ended the run, "" if none
    hex_centers,      \* possible insertion points
    z_pos,            \* hex_centers[0][2]
    dists,            \* distance_array(hex_centers, elyt.positions)
    hex_ixs,          \* indices of the suitable hexagon centers
    min_dists,        \* nearest-neighbor distance per suitable center
    hex_ix_best,      \* index of the best hexagon center
    insertion_point,  \* hex_centers[hex_ix_best]
    outfile,          \* the report file: <<>> while not written
    dirs,             \* directories created by os.mkdir
    gro,              \* atom index -> the snapshot written for it
    todo              \* the part of sel the output loop still has to visit

vars == << verts, box, flatside, tol, u, sel, pc, err, hex_centers, z_pos,
           dists, hex_ixs, min_dists, hex_ix_best, insertion_point,
           outfile, dirs, gro, todo >>

-----------------------------------------------------------------------------
(* Program constants, in units of 1e-5 Angstrom.                           *)

\* Side length of the hexagons, 1.42 Angstrom.
r0 == 142000
\* Default tolerance of check_hex_lattice and hex_verts2faces, 1e-3.
DefaultTol == 100
\* Lennard-Jones size of lithium ions, 2.12645 Angstrom.
sigma_Li == 212645
\* Li-C equilibrium distance 2^(1/6) * sqrt(sigma_Li * sigma_C).
r_eq == 308399
\* sqrt(r_eq^2 - r0^2).
z_shift == 273763
\* Cutoff within which neighbor atoms are searched.
r_cut == r_eq + sigma_Li

-----------------------------------------------------------------------------
(* Bounds of the model.                                                    *)

\* Longest vertex sequence handed to hex_verts2faces on its own.
MaxVerts == 4
\* Largest number of electrolyte atoms in the z window.
MaxNeigh == 2
\* Number of atoms of the Universe that may be transferable.
NAtoms == 2

-----------------------------------------------------------------------------
(* Arithmetic helpers.                                                     *)

Abs(a) == IF a < 0 THEN -a ELSE a

\* r * sqrt(3), with sqrt(3) = 1.7320508.
Sqrt3Times(r) == (r * 1732) \div 1000 + (r * 508) \div 10000000

RECURSIVE Pow10(_)
Pow10(e) == IF e <= 0 THEN 1 ELSE 10 * Pow10(e - 1)

\* int(np.ceil(-np.log10(tol))): the least number p of decimals with
\* 10^-p <= tol.  One unit is 1e-5, so 10^-p is Pow10(5 - p) units.
Precision(t) == CHOOSE p \in 0..5 :
                    /\ Pow10(5 - p) <= t
                    /\ \A q \in 0..(p - 1) : Pow10(5 - q) > t

\* np.round(a, p) of one number: to the nearest multiple of 10^-p, halves to
\* the even multiple.
Round(a, p) ==
    LET g == Pow10(5 - p)
        q == a \div g
        r == a % g
    IN  IF 2 * r < g THEN q * g
        ELSE IF 2 * r > g THEN (q + 1) * g
        ELSE IF q % 2 = 0 THEN q * g ELSE (q + 1) * g

RoundPos(p3, p) == << Round(p3[1], p), Round(p3[2], p), Round(p3[3], p) >>

\* mdadist.apply_PBC for an orthogonal box.
WrapPos(p3, b) == << p3[1] % b[1], p3[2] % b[2], p3[3] % b[3] >>

apply_PBC(ps, b) == [i \in 1..Len(ps) |-> WrapPos(ps[i], b)]

Range(s) == {s[i] : i \in 1..Len(s)}

\* a[mask]: the elements of s at the indices in keep, in order.
RECURSIVE Take(_, _, _)
Take(s, keep, i) ==
    IF i > Len(s) THEN << >>
    ELSE (IF i \in keep THEN << s[i] >> ELSE << >>) \o Take(s, keep, i + 1)

-----------------------------------------------------------------------------
(* check_hex_lattice                                                       *)

\* np.isclose(a % m, 0, rtol=0, atol=tol)
Divisible(a, m, t) == a % m <= t

\* The ValueError check_hex_lattice raises, "ok" if it returns.
check_hex_lattice(vs, r, b, fs, t) ==
    LET w == apply_PBC(vs, b)
        ix0 == IF fs = "x" THEN 1 ELSE 2
        ix1 == IF fs = "x" THEN 2 ELSE 1
    IN  IF \E i \in 1..Len(w) : Abs(w[i][3] - w[1][3]) > t
            THEN "not_flat"
        ELSE IF fs \notin {"x", "y"}
            THEN "flatside"
        ELSE IF ~Divisible(b[ix0], 3 * r, t)
            THEN IF ix0 = 1 THEN "periodic_x" ELSE "periodic_y"
        ELSE IF ~Divisible(b[ix1], Sqrt3Times(r), t)
            THEN IF ix1 = 1 THEN "periodic_x" ELSE "periodic_y"
        ELSE "ok"

-----------------------------------------------------------------------------
(* hex_verts2faces                                                         *)

\* The order with y as the first key.
LexLeqYFirst(a, b) ==
    \/ a[2] < b[2]
    \/ a[2] = b[2] /\ a[1] < b[1]
    \/ a[2] = b[2] /\ a[1] = b[1] /\ a[3] <= b[3]

\* Order of np.lexsort(faces[:, ::-1].T): x first, then y, then z.
LexLeq(a, b) ==
    \/ a[1] < b[1]
    \/ a[1] = b[1] /\ a[2] < b[2]
    \/ a[1] = b[1] /\ a[2] = b[2] /\ a[3] <= b[3]

RECURSIVE Insert(_, _)
Insert(s, e) ==
    IF s = << >> THEN << e >>
    ELSE IF LexLeq(s[Len(s)], e) THEN Append(s, e)
    ELSE Append(Insert(SubSeq(s, 1, Len(s) - 1), e), s[Len(s)])

RECURSIVE SortPrefix(_, _)
SortPrefix(s, n) == IF n = 0 THEN << >> ELSE Insert(SortPrefix(s, n - 1), s[n])

\* faces[np.lexsort(faces[:, ::-1].T)]
LexSort(s) == SortPrefix(s, Len(s))

\* The faces that pass the filter of lines 189-208: the wrapped vertices
\* shifted by r0 along flatside, wrapped again and rounded, without those
\* whose coordinate along flatside is a rounded vertex coordinate.
FilteredFaces(vs, r, b, fs, t) ==
    LET w == apply_PBC(vs, b)
        ax == IF fs = "x" THEN 1 ELSE 2
        p == Precision(t)
        shifted == [i \in 1..Len(w) |-> [w[i] EXCEPT ![ax] = @ + r]]
        faces == [i \in 1..Len(w) |-> RoundPos(WrapPos(shifted[i], b), p)]
        rverts == [i \in 1..Len(w) |-> RoundPos(w[i], p)]
        vcoords == {rverts[i][ax] : i \in 1..Len(w)}
        valid == {i \in 1..Len(w) : faces[i][ax] \notin vcoords}
    IN  Take(faces, valid, 1)

\* hex_verts2faces without the check of line 209.
hex_verts2faces_unchecked(vs, r, b, fs, t) ==
    LET chk == check_hex_lattice(vs, r, b, fs, t)
    IN  IF chk # "ok" THEN [err |-> chk, faces |-> << >>]
        ELSE [err |-> "ok", faces |-> LexSort(FilteredFaces(vs, r, b, fs, t))]

\* The result of hex_verts2faces: the exception it raises ("ok" if none)
\* and the array it returns.
hex_verts2faces(vs, r, b, fs, t) ==
    LET chk == check_hex_lattice(vs, r, b, fs, t)
    IN  IF chk # "ok" THEN [err |-> chk, faces |-> << >>]
        ELSE LET faces == FilteredFaces(vs, r, b, fs, t)
             IN  IF 2 * Len(faces) # Len(vs)
                     THEN [err |-> "face_count", faces |-> << >>]
                     ELSE [err |-> "ok", faces |-> LexSort(faces)]

-----------------------------------------------------------------------------
(* The search for the best insertion point, lines 325-362.                 *)

\* cm[c]: the neighbors in contact with hexagon center c.
cm(d, c) == {k \in 1..Len(d[c]) : d[c][k] <= r_cut}

\* cm_too_close[c]
cm_too_close(d, c) == {k \in 1..Len(d[c]) : d[c][k] <= sigma_Li}

\* np.any(cm_too_close) in the place of np.any(cm).
any_cm_too_close(d) == \E c \in 1..Len(d) : cm_too_close(d, c) # {}

\* np.any(cm)
any_cm(d) == \E c \in 1..Len(d) : cm(d, c) # {}

\* too_close[c] = np.any(cm_too_close, axis=1)[c]
too_close(d, c) == cm_too_close(d, c) # {}

\* n_neighbors[c] = np.sum(cm, axis=1)[c]
n_neighbors(d, c) == Cardinality(cm(d, c))

SetMin(S) == CHOOSE m \in S : \A n \in S : m <= n

SetMax(S) == CHOOSE m \in S : \A n \in S : m >= n

\* The elements of a set of numbers in ascending order.
RECURSIVE AscSeq(_)
AscSeq(S) == IF S = {} THEN << >>
             ELSE LET m == SetMin(S) IN << m >> \o AscSeq(S \ {m})

\* hex_ixs without the set difference of line 351.
SuitableKeepTooClose(d) ==
    LET all == 1..Len(d)
        open == {c \in all : ~too_close(d, c)}
        fewest == SetMin({n_neighbors(d, c) : c \in open})
    IN  AscSeq({c \in all : n_neighbors(d, c) = fewest})

\* hex_ixs of lines 347-351, for a d in which not every center is too close.
Suitable(d) ==
    LET all == 1..Len(d)
        open == {c \in all : ~too_close(d, c)}
        fewest == SetMin({n_neighbors(d, c) : c \in open})
        ixs == {c \in all : n_neighbors(d, c) = fewest}
        ixs_too_close == {c \in all : too_close(d, c)}
    IN  AscSeq(ixs \ ixs_too_close)

\* np.min(dists[hex_ix][cm[hex_ix]]), for a center with a contact.
Nearest(d, c) == SetMin({d[c][k] : k \in cm(d, c)})

\* The last index of the largest element.
ArgMaxLast(s) ==
    CHOOSE i \in 1..Len(s) :
        /\ \A j \in 1..Len(s) : s[j] <= s[i]
        /\ \A j \in (i + 1)..Len(s) : s[j] < s[i]

\* np.argmax(s): the first index of the largest element.
ArgMax(s) ==
    CHOOSE i \in 1..Len(s) :
        /\ \A j \in 1..Len(s) : s[j] <= s[i]
        /\ \A j \in 1..(i - 1) : s[j] < s[i]

-----------------------------------------------------------------------------
(* Inputs.                                                                 *)

\* z of the electrode surface and box length along z.
SurfZ == 500000
BoxZ == 1000000

\* One lattice cell: 3 r0 along x, sqrt(3) r0 along y.
StdBox == << 3 * r0, Sqrt3Times(r0), BoxZ >>

\* Vertex positions the vertex sequences are drawn from: the four vertices
\* of one cell, with variants in y and z, a negative and an unwrapped
\* coordinate, a lattice shifted so that a hexagon center falls just below
\* the box edge, and a vertex off the lattice plane.
Points == {
    << 0, 0, SurfZ >>,
    << 0, 0, SurfZ + 60 >>,
    << 0, 122976, SurfZ >>,
    << 71000, 122976, SurfZ >>,
    << 213000, 0, SurfZ >>,
    << -142000, 0, SurfZ >>,
    << 283950, 0, SurfZ >>,
    << 567950, 245950, SurfZ >>,
    << 100, 0, SurfZ + 160 >> }

VertSeqs(n) == UNION {[1..k -> Points] : k \in 1..n}

\* One cell of a lattice, and the same cell shifted along x.
Cell == << << 0, 0, SurfZ >>, << 71000, 122976, SurfZ >>,
           << 213000, 122976, SurfZ + 60 >>, << -142000, 0, SurfZ >> >>
ShiftedCell == << << 283970, 0, SurfZ >>, << 354970, 122976, SurfZ >>,
                  << 496970, 122976, SurfZ >>, << 567970, 0, SurfZ >> >>

\* Six vertices that pass every check and leave three hexagon centers.
SixVerts == Cell \o << << 0, 122976, SurfZ >>, << -142000, 122976, SurfZ >> >>

\* The lattices the whole workflow is run on.
MainVerts == {
    Cell,
    ShiftedCell,
    << << 0, 0, SurfZ >>, << 284000, 0, SurfZ >> >>,
    << << 0, 0, SurfZ >>, << 284000, 0, SurfZ + 160 >> >>,
    << << 0, 0, SurfZ >> >> }

BoxLens == { 3 * r0, 3 * r0 + 100, 3 * r0 + 101, 3 * r0 - 1, 6 * r0,
             Sqrt3Times(r0), Sqrt3Times(r0) + 100, Sqrt3Times(r0) - 1,
             2 * Sqrt3Times(r0) }

Boxes == {<< lx, ly, BoxZ >> : lx \in BoxLens, ly \in BoxLens}

MainBoxes == { StdBox, << 3 * r0 - 1, Sqrt3Times(r0), BoxZ >>,
               << 3 * r0, Sqrt3Times(r0) + 101, BoxZ >> }

Flatsides == {"x", "y", "z"}

Tols == {50, DefaultTol, 250}

\* Distances a hexagon center may have to a neighbor: at r_min, just above
\* it, at r_max and just above it.
DistVals == {sigma_Li, sigma_Li + 1, r_cut, r_cut + 1}

DistArrays(nc) ==
    UNION {[1..nc -> [1..nn -> DistVals]] : nn \in 0..MaxNeigh}

\* The atoms of the Universe, with positions and velocities.
Universe == [i \in 1..NAtoms |->
                [pos |-> << 1000 * i, 2000 * i, 900000 >>,
                 vel |-> << i, -i, 10 * i >>]]

NoSnapshots == [i \in 1..NAtoms |-> << >>]

-----------------------------------------------------------------------------
(* __main__                                                                *)

Fresh ==
    /\ pc = "resolve"
    /\ err = ""
    /\ u = Universe
    /\ hex_centers = << >>
    /\ z_pos = 0
    /\ dists = << >>
    /\ hex_ixs = << >>
    /\ min_dists = << >>
    /\ hex_ix_best = 0
    /\ insertion_point = << >>
    /\ outfile = << >>
    /\ dirs = {}
    /\ gro = NoSnapshots
    /\ todo = << >>

\* The state after the Universe is loaded (line 296): flatside and the
\* tolerance are the ones __main__ uses.  The lattice with three hexagon
\* centers is run with one transferable ion.
Init ==
    /\ Fresh
    /\ flatside = "x"
    /\ tol = DefaultTol
    /\ \/ /\ verts \in MainVerts
          /\ box \in MainBoxes
          /\ sel \in {AscSeq(S) : S \in SUBSET (1..NAtoms)}
       \/ /\ verts = SixVerts
          /\ box = StdBox
          /\ sel = << 1 >>

Fail(e) ==
    /\ pc' = "failed"
    /\ err' = e

\* Lines 299-301, hex_verts2faces returns.
ResolveOk ==
    /\ pc = "resolve"
    /\ LET res == hex_verts2faces(verts, r0, box, flatside, tol)
       IN  /\ res.err = "ok"
           /\ hex_centers' = res.faces
    /\ pc' = "shift"
    /\ UNCHANGED << verts, box, flatside, tol, u, sel, err, z_pos, dists,
                    hex_ixs, min_dists, hex_ix_best, insertion_point,
                    outfile, dirs, gro, todo >>

\* Lines 299-301, hex_verts2faces raises.
ResolveFail ==
    /\ pc = "resolve"
    /\ LET res == hex_verts2faces(verts, r0, box, flatside, tol)
       IN  /\ res.err # "ok"
           /\ Fail(res.err)
    /\ UNCHANGED << verts, box, flatside, tol, u, sel, hex_centers, z_pos,
                    dists, hex_ixs, min_dists, hex_ix_best, insertion_point,
                    outfile, dirs, gro, todo >>

\* Lines 305-311.
Shift ==
    /\ pc = "shift"
    /\ hex_centers' = [i \in 1..Len(hex_centers) |->
                          [hex_centers[i] EXCEPT ![3] = @ + z_shift]]
    /\ z_pos' = hex_centers'[1][3]
    /\ pc' = "neighbors"
    /\ UNCHANGED << verts, box, flatside, tol, u, sel, err, dists, hex_ixs,
                    min_dists, hex_ix_best, insertion_point, outfile, dirs,
                    gro, todo >>

\* Lines 313-325: the distances of the hexagon centers to the electrolyte
\* atoms in the z window.
Neighbors ==
    /\ pc = "neighbors"
    /\ dists' \in DistArrays(Len(hex_centers))
    /\ pc' = "contacts"
    /\ UNCHANGED << verts, box, flatside, tol, u, sel, err, hex_centers,
                    z_pos, hex_ixs, min_dists, hex_ix_best, insertion_point,
                    outfile, dirs, gro, todo >>

SelectFrame ==
    UNCHANGED << verts, box, flatside, tol, u, sel, hex_centers, z_pos,
                 dists, outfile, dirs, gro, todo >>

\* NoContacts with the report file opened before the check.
NoContactsAfterReport ==
    /\ pc = "contacts"
    /\ ~any_cm(dists)
    /\ Fail("no_contacts")
    /\ outfile' = << [sel |-> sel] >>
    /\ UNCHANGED << verts, box, flatside, tol, u, sel, hex_centers, z_pos,
                    dists, dirs, gro, todo, hex_ixs, min_dists, hex_ix_best,
                    insertion_point >>

\* Lines 326-330.
NoContacts ==
    /\ pc = "contacts"
    /\ ~any_cm(dists)
    /\ Fail("no_contacts")
    /\ SelectFrame
    /\ UNCHANGED << hex_ixs, min_dists, hex_ix_best, insertion_point >>

Contacts ==
    /\ pc = "contacts"
    /\ any_cm(dists)
    /\ pc' = "too_close"
    /\ SelectFrame
    /\ UNCHANGED << err, hex_ixs, min_dists, hex_ix_best, insertion_point >>

\* Lines 334-343.
AllTooClose ==
    /\ pc = "too_close"
    /\ \A c \in 1..Len(dists) : too_close(dists, c)
    /\ Fail("all_too_close")
    /\ SelectFrame
    /\ UNCHANGED << hex_ixs, min_dists, hex_ix_best, insertion_point >>

NotAllTooClose ==
    /\ pc = "too_close"
    /\ \E c \in 1..Len(dists) : ~too_close(dists, c)
    /\ pc' = "suitable"
    /\ SelectFrame
    /\ UNCHANGED << err, hex_ixs, min_dists, hex_ix_best, insertion_point >>

\* Lines 344-353.
FindSuitable ==
    /\ pc = "suitable"
    /\ hex_ixs' = Suitable(dists)
    /\ IF Len(hex_ixs') = 0
           THEN Fail("no_suitable")
           ELSE pc' = "min_dists" /\ UNCHANGED err
    /\ SelectFrame
    /\ UNCHANGED << min_dists, hex_ix_best, insertion_point >>

\* Lines 354-358, every suitable center has a contact.
MinDists ==
    /\ pc = "min_dists"
    /\ \A i \in 1..Len(hex_ixs) : cm(dists, hex_ixs[i]) # {}
    /\ min_dists' = [i \in 1..Len(hex_ixs) |-> Nearest(dists, hex_ixs[i])]
    /\ pc' = "best"
    /\ SelectFrame
    /\ UNCHANGED << err, hex_ixs, hex_ix_best, insertion_point >>

\* Lines 354-358, np.min of an empty array raises ValueError.
MinDistsEmpty ==
    /\ pc = "min_dists"
    /\ \E i \in 1..Len(hex_ixs) : cm(dists, hex_ixs[i]) = {}
    /\ Fail("zero_size_min")
    /\ SelectFrame
    /\ UNCHANGED << hex_ixs, min_dists, hex_ix_best, insertion_point >>

\* Lines 360-362.
Best ==
    /\ pc = "best"
    /\ hex_ix_best' = hex_ixs[ArgMax(min_dists)]
    /\ insertion_point' = hex_centers[hex_ix_best']
    /\ pc' = "report"
    /\ SelectFrame
    /\ UNCHANGED << err, hex_ixs, min_dists >>

\* Lines 364-437: the report file.
WriteReport ==
    /\ pc = "report"
    /\ outfile' = << [sel |-> sel,
                      n_neighbors |-> n_neighbors(dists, hex_ix_best),
                      z_pos |-> z_pos,
                      hex_ixs |-> hex_ixs,
                      min_dists |-> min_dists,
                      hex_ix_best |-> hex_ix_best] >>
    /\ todo' = sel
    /\ pc' = "transfer"
    /\ UNCHANGED << verts, box, flatside, tol, u, sel, err, hex_centers,
                    z_pos, dists, hex_ixs, min_dists, hex_ix_best,
                    insertion_point, dirs, gro >>

\* u_copy of lines 442-444.
Relocated(univ, i, point) ==
    [univ EXCEPT ![i] = [pos |-> point, vel |-> << 0, 0, 0 >>]]

\* The loop pass with the ion moved in u itself, not in a copy.
TransferIonInPlace ==
    /\ pc = "transfer"
    /\ todo # << >>
    /\ LET i == Head(todo)
           u_copy == Relocated(u, i, insertion_point)
       IN  /\ u' = u_copy
           /\ dirs' = dirs \cup {i}
           /\ gro' = [gro EXCEPT ![i] = << u_copy >>]
    /\ todo' = Tail(todo)
    /\ UNCHANGED << verts, box, flatside, tol, sel, pc, err, hex_centers,
                    z_pos, dists, hex_ixs, min_dists, hex_ix_best,
                    insertion_point, outfile >>

\* Lines 441-453, one pass of the loop.
TransferIon ==
    /\ pc = "transfer"
    /\ todo # << >>
    /\ LET i == Head(todo)
           u_copy == Relocated(u, i, insertion_point)
       IN  /\ dirs' = dirs \cup {i}
           /\ gro' = [gro EXCEPT ![i] = << u_copy >>]
    /\ todo' = Tail(todo)
    /\ UNCHANGED << verts, box, flatside, tol, u, sel, pc, err, hex_centers,
                    z_pos, dists, hex_ixs, min_dists, hex_ix_best,
                    insertion_point, outfile >>

\* Line 446: os.mkdir raises, the directory exists already.
MkdirFails ==
    /\ pc = "transfer"
    /\ todo # << >>
    /\ Fail("mkdir")
    /\ UNCHANGED << verts, box, flatside, tol, u, sel, hex_centers, z_pos,
                    dists, hex_ixs, min_dists, hex_ix_best, insertion_point,
                    outfile, dirs, gro, todo >>

\* Line 455.
Finish ==
    /\ pc = "transfer"
    /\ todo = << >>
    /\ pc' = "done"
    /\ UNCHANGED << verts, box, flatside, tol, u, sel, err, hex_centers,
                    z_pos, dists, hex_ixs, min_dists, hex_ix_best,
                    insertion_point, outfile, dirs, gro, todo >>

Next ==
    \/ ResolveOk
    \/ ResolveFail
    \/ Shift
    \/ Neighbors
    \/ NoContacts
    \/ Contacts
    \/ AllTooClose
    \/ NotAllTooClose
    \/ FindSuitable
    \/ MinDists
    \/ MinDistsEmpty
    \/ Best
    \/ WriteReport
    \/ TransferIon
    \/ MkdirFails
    \/ Finish

Spec == Init /\ [][Next]_vars

\* hex_verts2faces on its own: any vertex sequence in the standard box, and
\* the workflow's lattices in every box, with every flatside and tolerance.
InitResolve ==
    /\ Fresh
    /\ sel = << >>
    /\ \/ /\ verts \in VertSeqs(MaxVerts)
          /\ box = StdBox
          /\ flatside = "x"
          /\ tol = DefaultTol
       \/ /\ verts \in MainVerts
          /\ box \in Boxes
          /\ flatside \in Flatsides
          /\ tol \in Tols

NextResolve ==
    \/ ResolveOk
    \/ ResolveFail

SpecResolve == InitResolve /\ [][NextResolve]_vars

-----------------------------------------------------------------------------
(* Properties.                                                             *)

\* hex_verts2faces has returned.
Resolved == pc = "shift"

\* The search has ended with an insertion point.
Selected == pc \in {"report", "transfer", "done"}

\* C1: when hex_verts2faces returns, the number of faces is exactly half
\* the number of vertices; whenever the lattice passes check_hex_lattice and
\* the filter leaves another number of faces, the call raises the face
\* count error and returns nothing.
C1_FaceCount ==
    /\ Resolved => 2 * Len(hex_centers) = Len(verts)
    /\ ( /\ pc # "resolve"
         /\ check_hex_lattice(verts, r0, box, flatside, tol) = "ok"
         /\ 2 * Len(FilteredFaces(verts, r0, box, flatside, tol)) # Len(verts) )
       => (pc = "failed" /\ err = "face_count" /\ hex_centers = << >>)

C1_Witness ==
    /\ Resolved
    /\ Len(verts) = 4
    /\ Len(hex_centers) = 2

C2_Nearest(c) ==
    CHOOSE m \in {dists[c][k] : k \in 1..Len(dists[c])} :
        /\ m <= r_cut
        /\ \A k \in 1..Len(dists[c]) : dists[c][k] <= r_cut => m <= dists[c][k]

\* C2: when the search succeeds, the best hexagon center is a suitable one,
\* no suitable center has a larger nearest-neighbor distance, and among the
\* suitable centers with that largest distance it has the lowest index.
C2_BestIsFarthestFirst ==
    Selected =>
        /\ \E i \in 1..Len(hex_ixs) : hex_ixs[i] = hex_ix_best
        /\ insertion_point = hex_centers[hex_ix_best]
        /\ \A i \in 1..Len(hex_ixs) :
              /\ C2_Nearest(hex_ixs[i]) <= C2_Nearest(hex_ix_best)
              /\ C2_Nearest(hex_ixs[i]) = C2_Nearest(hex_ix_best)
                     => hex_ix_best <= hex_ixs[i]

C2_Witness ==
    /\ pc = "report"
    /\ Len(hex_ixs) = 2
    /\ min_dists[1] = min_dists[2]
    /\ hex_ix_best = 1

C3_Disqualified(c) == \E k \in 1..Len(dists[c]) : dists[c][k] <= sigma_Li

C3_Count(c) == Cardinality({k \in 1..Len(dists[c]) : dists[c][k] <= r_cut})

\* C3: when the search succeeds, the suitable centers are exactly the
\* centers with no neighbor within r_min whose number of neighbors within
\* r_max is the least such number among the centers with no neighbor within
\* r_min; no center with a neighbor within r_min is suitable or best.
C3_SuitableSet ==
    Selected =>
        LET all == 1..Len(dists)
            open == {c \in all : ~C3_Disqualified(c)}
        IN  /\ {hex_ixs[i] : i \in 1..Len(hex_ixs)} =
                   {c \in open : \A o \in open : C3_Count(c) <= C3_Count(o)}
            /\ ~C3_Disqualified(hex_ix_best)

C3_Witness ==
    /\ pc = "report"
    /\ \E c \in 1..Len(dists) :
          /\ C3_Disqualified(c)
          /\ \A o \in 1..Len(dists) : C3_Count(c) <= C3_Count(o)
          /\ \A i \in 1..Len(hex_ixs) : hex_ixs[i] # c

C4_NoContact ==
    \A c \in 1..Len(dists) : \A k \in 1..Len(dists[c]) : dists[c][k] > r_cut

C4_AllWithinRmin ==
    \A c \in 1..Len(dists) : \E k \in 1..Len(dists[c]) : dists[c][k] <= sigma_Li

\* C4: the search fails with the "no contacts" error exactly when no
\* distance is within r_max (also when there is no neighbor at all), and
\* with the "all too close" error exactly when there is a contact within
\* r_max and every center has a neighbor within r_min.
C4_FailureVariants ==
    /\ pc \notin {"resolve", "shift", "neighbors", "contacts"}
       /\ err \notin {"not_flat", "flatside", "periodic_x", "periodic_y",
                      "face_count"}
       => (C4_NoContact <=> (pc = "failed" /\ err = "no_contacts"))
    /\ pc \notin {"resolve", "shift", "neighbors", "contacts", "too_close"}
       /\ err \notin {"not_flat", "flatside", "periodic_x", "periodic_y",
                      "face_count"}
       => ((~C4_NoContact /\ C4_AllWithinRmin)
              <=> (pc = "failed" /\ err = "all_too_close"))

C4_Witness ==
    /\ pc = "failed"
    /\ err = "all_too_close"
    /\ Len(dists) = 2
    /\ \E c \in 1..Len(dists) : \E k \in 1..Len(dists[c]) :
          dists[c][k] > sigma_Li

C5_NearMultiple(a, m, t) == \E k \in 0..(a \div m + 1) : Abs(a - k * m) <= t

\* C5: a lattice that is flat, with a valid flatside, is accepted exactly
\* when the box length along flatside is within the tolerance of a multiple
\* of 3 r0 and the box length along the other axis is within the tolerance
\* of a multiple of sqrt(3) r0, above or below it; otherwise the error names
\* the axis.
C5_Claim ==
    (pc # "resolve" /\ err \notin {"not_flat", "flatside"}) =>
        LET ix0 == IF flatside = "x" THEN 1 ELSE 2
            ix1 == IF flatside = "x" THEN 2 ELSE 1
            name == << "periodic_x", "periodic_y" >>
            ok0 == C5_NearMultiple(box[ix0], 3 * r0, tol)
            ok1 == C5_NearMultiple(box[ix1], Sqrt3Times(r0), tol)
        IN  /\ (ok0 /\ ok1) <=> err \notin {"periodic_x", "periodic_y"}
            /\ ~ok0 => err = name[ix0]
            /\ (ok0 /\ ~ok1) => err = name[ix1]

C6_Before(a, b) ==
    \/ a[1] < b[1]
    \/ a[1] = b[1] /\ (a[2] < b[2] \/ (a[2] = b[2] /\ a[3] <= b[3]))

C6_Count(s, e) == Cardinality({i \in 1..Len(s) : s[i] = e})

\* C6: the faces hex_verts2faces returns are in non-decreasing order by x,
\* then y, then z, and are the faces that passed the filter, each as often
\* as it passed.
C6_SortedPermutation ==
    Resolved =>
        LET kept == FilteredFaces(verts, r0, box, flatside, tol)
        IN  /\ \A i, j \in 1..Len(hex_centers) :
                  i < j => C6_Before(hex_centers[i], hex_centers[j])
            /\ Len(hex_centers) = Len(kept)
            /\ \A i \in 1..Len(kept) :
                  C6_Count(hex_centers, kept[i]) = C6_Count(kept, kept[i])

C6_Witness ==
    /\ Resolved
    /\ Len(hex_centers) = 2
    /\ hex_centers # FilteredFaces(verts, r0, box, flatside, tol)

C8_NoOutputOnFailure ==
    ( /\ pc = "failed"
      /\ err \in {"not_flat", "flatside", "periodic_x", "periodic_y",
                  "face_count", "no_contacts", "all_too_close",
                  "no_suitable"} )
    => /\ outfile = << >>
       /\ dirs = {}
       /\ \A i \in 1..NAtoms : gro[i] = << >>
       /\ ~ENABLED Next

C8_Witness ==
    /\ pc = "failed"
    /\ err = "no_contacts"
    /\ sel # << >>
    /\ outfile = << >>

\* C9: the snapshot written for a transferable ion is the original system
\* with that ion at the insertion point with zero velocity and every other
\* atom unchanged; the original system is never changed; a run that ends
\* has written one snapshot, in one directory, for every transferable ion.
C9_SnapshotFrame ==
    /\ u = Universe
    /\ \A i \in 1..NAtoms :
          gro[i] # << >> =>
              /\ \E n \in 1..Len(sel) : sel[n] = i
              /\ Len(gro[i]) = 1
              /\ gro[i][1][i].pos = insertion_point
              /\ gro[i][1][i].vel = << 0, 0, 0 >>
              /\ \A j \in 1..NAtoms : j # i => gro[i][1][j] = Universe[j]
    /\ pc = "done" =>
          /\ \A n \in 1..Len(sel) : gro[sel[n]] # << >>
          /\ dirs = {sel[n] : n \in 1..Len(sel)}

C9_Witness ==
    /\ pc = "done"
    /\ Len(sel) = 2
    /\ gro[sel[2]] # << >>

\* C10: once the three checks of the search are passed the search ends with
\* a result, in which every suitable center has a nearest-neighbor distance:
\* the least of its distances within r_max, above r_min and at most r_max.
C10_Claim ==
    /\ ~(pc = "failed" /\ err = "zero_size_min")
    /\ pc \in {"best", "report", "transfer", "done"} =>
          \A i \in 1..Len(hex_ixs) :
              /\ i <= Len(min_dists)
              /\ min_dists[i] = C2_Nearest(hex_ixs[i])
              /\ sigma_Li < min_dists[i]
              /\ min_dists[i] <= r_cut

=============================================================================
